---- MODULE Spec2Model ----
(***************************************************************************)
(* fzsl: candidate discovery (fzsl/scanner.py) and the incremental search  *)
(* session that consumes it (fzsl/core.py, described in spec.md 3-4).      *)
(*                                                                         *)
(* Strings are sequences of one-character strings, so that prefix tests,   *)
(* tokenisation and path normalisation are computed character by           *)
(* character as the Python code computes them.                             *)
(***************************************************************************)
EXTENDS Integers, Sequences, FiniteSets, TLC

VARIABLES
    \* ---- search session (spec.md 3, 4.3)
    fullPool,     \* the candidates, in discovery order; loaded once
    query,        \* the current query
    pool,         \* working pool: ascending indices into fullPool
    ranked,       \* ranked MatchResults of the working pool
    stack,        \* snapshots pushed by append, popped by delete
    lastOp,       \* the last query edit and how it was served
    preAppend,    \* observer: what the session held before the append just made (and perhaps undone)
    watchQ,       \* observer: a query whose pool is recorded ...
    watchPool,    \* ... the pool last produced for watchQ, or None
    \* ---- SimpleScanner.scan (scanner.py 182-232)
    cachePath,    \* self._cache: None or "cache"
    cacheFile,    \* the file at self._cache: None (absent) or its text
    scanRet,      \* what the last scan() returned, or None
    scanExc,      \* what the last scan() raised, or None
    scanCall,     \* the last call: arguments, the file before it, the command's outcome
    cmdRuns,      \* how many times self._cmd was started
    \* ---- SimpleScanner.is_suitable (scanner.py 145-180)
    rootPath,     \* self._root_path: None or a normalised absolute path
    detectCmd,    \* self._detect_cmd: None or a command
    suitCall,     \* the last is_suitable call: its path and the detect outcome
    suitRet,      \* what it returned (TRUE/FALSE), or None
    suitExc,      \* what it raised, or None
    \* ---- scanner_from_configparser (scanner.py 121-143, 234-254)
    cfgSection,   \* the options of the section handed in, or None
    cfgOutcome,   \* the exception raised or "Scanner", or None
    cfgScanner,   \* the scanner returned, or None
    constructed,  \* how many SimpleScanner objects were constructed
    \* ---- Scanner ordering (scanner.py 18-40)
    scanners,     \* a list of scanners, as built
    sorted,       \* the list after list.sort(), or None
    cmpPair       \* the pair last compared and the operators' answers, or None

\* Python's None and a present value: the empty and the one-element tuple.
None == <<>>
Some(v) == <<v>>
IsSome(x) == Len(x) = 1
IsNone(x) == Len(x) = 0

sessVars  == <<fullPool, query, pool, ranked, stack, lastOp, preAppend, watchQ, watchPool>>
scanVars  == <<cachePath, cacheFile, scanRet, scanExc, scanCall, cmdRuns>>
suitVars  == <<rootPath, detectCmd, suitCall, suitRet, suitExc>>
cfgVars   == <<cfgSection, cfgOutcome, cfgScanner, constructed>>
orderVars == <<scanners, sorted, cmpPair>>
vars == <<sessVars, scanVars, suitVars, cfgVars, orderVars>>

(***************************************************************************)
(* Bounds of the model.                                                    *)
(***************************************************************************)
MaxQueryLen == 2
MaxTextLen == 3
MaxPathLen == 4
MaxList == 3
MaxPriority == 2
MaxRuns == 2

(***************************************************************************)
(* Characters and strings.                                                 *)
(***************************************************************************)
UpperChars == <<"A","B","C","D","E","F","G","H","I","J","K","L","M",
                "N","O","P","Q","R","S","T","U","V","W","X","Y","Z">>
LowerChars == <<"a","b","c","d","e","f","g","h","i","j","k","l","m",
                "n","o","p","q","r","s","t","u","v","w","x","y","z">>

UpperSet == {UpperChars[i] : i \in 1..26}
LowerSet == {LowerChars[i] : i \in 1..26}
LowerOf == [ch \in UpperSet |-> LowerChars[CHOOSE i \in 1..26 : UpperChars[i] = ch]]

IsUpper(ch) == ch \in UpperSet
IsLower(ch) == ch \in LowerSet
ToLower(ch) == IF ch \in UpperSet THEN LowerOf[ch] ELSE ch

SeqsUpTo(S, n) == UNION {[1..k -> S] : k \in 0..n}

Last(s) == s[Len(s)]
Front(s) == SubSeq(s, 1, Len(s) - 1)

(***************************************************************************)
(* Matcher (spec.md 4.1).                                                  *)
(***************************************************************************)
Separators == {"/", "_", "-", ".", " "}

\* Weights of the scoring; spec.md 9 leaves the numbers to the implementation.
ContiguousBonus == 5
BoundaryBonus == 4
LeadingGapPenalty == 2
InteriorGapPenalty == 1

\* Smart case: a query with an uppercase letter matches case-sensitively.
CaseSensitive(q) == \E i \in 1..Len(q) : IsUpper(q[i])

CharMatches(q, qc, cc) == IF CaseSensitive(q) THEN qc = cc ELSE ToLower(qc) = ToLower(cc)

\* A match at position j of c starts a word.
AtBoundary(c, j) ==
    \/ j = 1
    \/ c[j - 1] \in Separators
    \/ IsLower(c[j - 1]) /\ IsUpper(c[j])

\* The score of matching one query character at j, the previous one at prev
\* (0: none yet).
StepScore(c, prev, j) ==
    (IF prev = 0 THEN 0 - LeadingGapPenalty * (j - 1)
     ELSE IF j = prev + 1 THEN ContiguousBonus
     ELSE 0 - InteriorGapPenalty * (j - prev - 1))
    + (IF AtBoundary(c, j) THEN BoundaryBonus ELSE 0)

NoMatch == [ok |-> FALSE, score |-> 0, pos |-> <<>>]

\* The better of two alignments: the higher score, the earlier one on a tie.
Better(a, b) ==
    IF ~a.ok THEN b
    ELSE IF ~b.ok THEN a
    ELSE IF b.score > a.score THEN b ELSE a

\* The best alignment of q[i..] in c after position prev: over every
\* matching position j > prev, the step's score plus the best of the rest.
RECURSIVE BestFrom(_, _, _, _), BestOver(_, _, _, _, _)
BestFrom(q, c, i, prev) ==
    IF i > Len(q) THEN [ok |-> TRUE, score |-> 0, pos |-> <<>>]
    ELSE BestOver(q, c, i, prev, prev + 1)

BestOver(q, c, i, prev, j) ==
    IF j > Len(c) THEN NoMatch
    ELSE LET rest == BestFrom(q, c, i + 1, j)
             here == IF CharMatches(q, q[i], c[j]) /\ rest.ok
                     THEN [ok |-> TRUE,
                           score |-> StepScore(c, prev, j) + rest.score,
                           pos |-> <<j>> \o rest.pos]
                     ELSE NoMatch
         IN Better(here, BestOver(q, c, i, prev, j + 1))

\* score(query, candidate) -> MatchResult | NoMatch
Score(q, c) == BestFrom(q, c, 1, 0)

(***************************************************************************)
(* Ranker (spec.md 4.2): score descending, then candidate length           *)
(* ascending, then discovery order ascending.                              *)
(***************************************************************************)
RanksBefore(full, a, b) ==
    \/ a.score > b.score
    \/ a.score = b.score /\ Len(full[a.cand]) < Len(full[b.cand])
    \/ a.score = b.score /\ Len(full[a.cand]) = Len(full[b.cand]) /\ a.cand < b.cand

RECURSIVE Rank(_, _)
Rank(full, results) ==
    IF results = {} THEN <<>>
    ELSE LET first == CHOOSE r \in results :
                         \A o \in results \ {r} : RanksBefore(full, r, o)
         IN <<first>> \o Rank(full, results \ {first})

(***************************************************************************)
(* Search session (spec.md 4.3).                                           *)
(***************************************************************************)
\* The ascending sequence of the indices in S.
RECURSIVE Ascending(_)
Ascending(S) ==
    IF S = {} THEN <<>>
    ELSE LET m == CHOOSE x \in S : \A y \in S : x <= y
         IN <<m>> \o Ascending(S \ {m})

Range(s) == {s[i] : i \in 1..Len(s)}

QueryChars == {"m", "n", "M"}

\* The candidate lists a discovery provider hands over: the scenario of
\* spec.md 8, one with duplicates and both cases, and the empty pool of a
\* failed discovery.
CandidatePools ==
    { <<<<"m","a","i","n",".","g","o">>, <<"p","k","g","/","m","a","i","n","_","t","e","s","t",".","g","o">>, <<"R","E","A","D","M","E",".","m","d">>>>,
      <<<<"n","m">>, <<"M","n">>, <<"m","n">>, <<"a","_","n">>, <<"m","n">>>>,
      <<>> }

Queries == SeqsUpTo(QueryChars, MaxQueryLen)

\* score(q, c) of every query on every candidate of every pool, computed once:
\* the Matcher is pure and deterministic, so a pass may look its results up.
\* (f @@ <<>> is f; it makes TLC tabulate f instead of re-evaluating it.)
Scores ==
    [full \in CandidatePools |->
        [q \in Queries |->
            [i \in 1..Len(full) |-> Score(q, full[i])] @@ <<>>] @@ <<>>] @@ <<>>

\* One scoring pass of q over the candidates `from`: the pool that matches
\* and its ranking.  The empty query performs no ranking: the pool is shown
\* in discovery order with score 0.
Rescore(full, from, q) ==
    IF q = <<>>
    THEN [pool |-> from,
          ranked |-> [k \in 1..Len(from) |->
                         [cand |-> from[k], score |-> 0, pos |-> <<>>]]]
    ELSE LET scored == {<<i, Scores[full][q][i]>> : i \in Range(from)}
             hits == {s \in scored : s[2].ok}
         IN [pool |-> Ascending({s[1] : s \in hits}),
             ranked |-> Rank(full, {[cand |-> s[1],
                                     score |-> s[2].score,
                                     pos |-> s[2].pos] : s \in hits})]

AllOf(full) == [k \in 1..Len(full) |-> k]

\* The observer of the pools produced: after an edit that produced pool p
\* for query q, the pool recorded for the watched query.
Watch(q, p) == IF q = watchQ THEN Some(p) ELSE watchPool

\* (the appended character alone is scored, against every candidate)
AppendScoresCharOnly(ch) ==
    /\ Len(query) < MaxQueryLen
    /\ LET r == Rescore(fullPool, AllOf(fullPool), <<ch>>)
       IN /\ query' = Append(query, ch)
          /\ pool' = r.pool
          /\ ranked' = r.ranked
          /\ stack' = Append(stack, [qlen |-> Len(query), pool |-> pool, ranked |-> ranked])
          /\ lastOp' = [op |-> "append", served |-> "rescored", after |-> lastOp.op]
          /\ preAppend' = Some([query |-> query, pool |-> pool, ranked |-> ranked])
          /\ watchPool' = Watch(query', r.pool)
    /\ UNCHANGED <<fullPool, watchQ, scanVars, suitVars, cfgVars, orderVars>>

\* Append character: push the snapshot of the current query, re-score the
\* current working pool only.
AppendChar(ch) ==
    /\ Len(query) < MaxQueryLen
    /\ LET r == Rescore(fullPool, pool, Append(query, ch))
       IN /\ query' = Append(query, ch)
          /\ pool' = r.pool
          /\ ranked' = r.ranked
          /\ stack' = Append(stack, [qlen |-> Len(query), pool |-> pool, ranked |-> ranked])
          /\ lastOp' = [op |-> "append", served |-> "rescored", after |-> lastOp.op]
          /\ preAppend' = Some([query |-> query, pool |-> pool, ranked |-> ranked])
          /\ watchPool' = Watch(query', r.pool)
    /\ UNCHANGED <<fullPool, watchQ, scanVars, suitVars, cfgVars, orderVars>>

\* (the snapshot is popped and never restored: the narrowed pool stays)
DeleteKeepsPool ==
    /\ Len(query) > 0
    /\ query' = Front(query)
    /\ stack' = IF stack # <<>> THEN Front(stack) ELSE stack
    /\ lastOp' = [op |-> "delete",
                  served |-> IF stack # <<>> THEN "restored" ELSE "rescored",
                  after |-> lastOp.op]
    /\ watchPool' = Watch(query', pool)
    /\ preAppend' = IF lastOp.op = "append" THEN preAppend ELSE None
    /\ UNCHANGED <<fullPool, pool, ranked, watchQ, scanVars, suitVars, cfgVars, orderVars>>

\* Delete last character: pop the snapshot of the shorter query and restore
\* it; without one, re-score the shorter query from the full pool.

DeleteChar ==
    /\ Len(query) > 0
    /\ query' = Front(query)
    /\ IF stack # <<>> /\ Last(stack).qlen = Len(query) - 1
       THEN /\ pool' = Last(stack).pool
            /\ ranked' = Last(stack).ranked
            /\ stack' = Front(stack)
            /\ lastOp' = [op |-> "delete", served |-> "restored", after |-> lastOp.op]
       ELSE LET r == Rescore(fullPool, AllOf(fullPool), Front(query))
            IN /\ pool' = r.pool
               /\ ranked' = r.ranked
               /\ stack' = <<>>
               /\ lastOp' = [op |-> "delete", served |-> "rescored", after |-> lastOp.op]
    /\ watchPool' = Watch(query', pool')
    /\ preAppend' = IF lastOp.op = "append" THEN preAppend ELSE None
    /\ UNCHANGED <<fullPool, watchQ, scanVars, suitVars, cfgVars, orderVars>>

\* Full query replace: re-score from the full pool, snapshot stack rebuilt
\* from scratch.
ReplaceQuery(q) ==
    /\ LET r == Rescore(fullPool, AllOf(fullPool), q)
       IN /\ query' = q
          /\ pool' = r.pool
          /\ ranked' = r.ranked
          /\ watchPool' = Watch(q, r.pool)
    /\ stack' = <<>>
    /\ lastOp' = [op |-> "replace", served |-> "rescored", after |-> lastOp.op]
    /\ preAppend' = None
    /\ UNCHANGED <<fullPool, watchQ, scanVars, suitVars, cfgVars, orderVars>>

IdleSession ==
    /\ fullPool = <<>> /\ query = <<>> /\ pool = <<>> /\ ranked = <<>>
    /\ stack = <<>> /\ lastOp = [op |-> "init", served |-> "none", after |-> "none"]
    /\ preAppend = None /\ watchQ = <<>> /\ watchPool = None
IdleScan ==
    /\ cachePath = None /\ cacheFile = None /\ scanRet = None /\ scanExc = None
    /\ scanCall = None /\ cmdRuns = 0
IdleSuit ==
    /\ rootPath = None /\ detectCmd = None /\ suitCall = None
    /\ suitRet = None /\ suitExc = None
IdleCfg ==
    /\ cfgSection = None /\ cfgOutcome = None /\ cfgScanner = None /\ constructed = 0
IdleOrder ==
    /\ scanners = <<>> /\ sorted = None /\ cmpPair = None

\* Session start: the Empty state over the loaded candidates.
InitSession ==
    /\ fullPool \in CandidatePools
    /\ query = <<>>
    /\ pool = AllOf(fullPool)
    /\ ranked = Rescore(fullPool, AllOf(fullPool), <<>>).ranked
    /\ stack = <<>>
    /\ lastOp = [op |-> "init", served |-> "none", after |-> "none"]
    /\ preAppend = None
    /\ watchQ \in Queries
    /\ watchPool = IF watchQ = <<>> THEN Some(pool) ELSE None
    /\ IdleScan /\ IdleSuit /\ IdleCfg /\ IdleOrder

NextSession ==
    \/ \E ch \in QueryChars : AppendChar(ch)
    \/ DeleteChar
    \/ \E q \in Queries : ReplaceQuery(q)

SpecSession == InitSession /\ [][NextSession]_vars

\* C1: monotonic narrowing. Whenever the session has produced a pool for a
\* query q and a pool for q + ch (in either order, by any edits), the pool
\* of q + ch is a subset, by discovery position, of the pool of q.
C1_MonotonicNarrowing ==
    IsSome(watchPool) =>
        /\ (query # <<>> /\ Front(query) = watchQ
               => Range(pool) \subseteq Range(watchPool[1]))
        /\ (watchQ # <<>> /\ Front(watchQ) = query
               => Range(watchPool[1]) \subseteq Range(pool))

\* A pool for q + ch produced from the full pool (not by narrowing q's own
\* pool) that is non-empty and strictly smaller than the one recorded for q.
C1_Witness ==
    /\ IsSome(watchPool) /\ query # <<>> /\ Front(query) = watchQ
    /\ lastOp.op = "replace"
    /\ pool # <<>> /\ Range(pool) # Range(watchPool[1])
    /\ CaseSensitive(query) /\ ~CaseSensitive(watchQ)

\* C2: backspace restores the prior pool exactly. A delete that directly
\* follows an append leaves the query, working pool and ranking the session
\* had before that append; a delete that finds no snapshot leaves the result
\* of re-scoring the shorter query from the full candidate pool.
C2_BackspaceRestores ==
    /\ (lastOp.op = "delete" /\ lastOp.after = "append"
           => /\ query = preAppend[1].query
              /\ pool = preAppend[1].pool
              /\ ranked = preAppend[1].ranked)
    /\ (lastOp.op = "delete" /\ lastOp.served = "rescored"
           => LET r == Rescore(fullPool, AllOf(fullPool), query)
              IN pool = r.pool /\ ranked = r.ranked)

\* "m", then "n" appended and deleted again: the restored pool is a proper
\* part of the candidates and its ranking is not the discovery order.
C2_Witness ==
    /\ lastOp.op = "delete" /\ lastOp.after = "append" /\ lastOp.served = "restored"
    /\ query # <<>>
    /\ Len(pool) < Len(fullPool)
    /\ \E i \in 1..Len(ranked) - 1 : ranked[i].cand > ranked[i + 1].cand

\* A delete served without a snapshot, after a full replace.
C2_WitnessFallback ==
    /\ lastOp.op = "delete" /\ lastOp.served = "rescored" /\ lastOp.after = "replace"
    /\ query # <<>> /\ pool # <<>> /\ Len(pool) < Len(fullPool)

(***************************************************************************)
(* SimpleScanner.scan (scanner.py 182-232).                                *)
(***************************************************************************)
Whitespace == {" ", "\n", "\t", "\r"}

\* str.split(): the maximal runs of non-whitespace characters, in order.
RECURSIVE SplitFrom(_, _, _)
SplitFrom(text, i, cur) ==
    IF i > Len(text)
    THEN IF cur = <<>> THEN <<>> ELSE <<cur>>
    ELSE IF text[i] \in Whitespace
         THEN (IF cur = <<>> THEN <<>> ELSE <<cur>>) \o SplitFrom(text, i + 1, <<>>)
         ELSE SplitFrom(text, i + 1, Append(cur, text[i]))

Split(text) == SplitFrom(text, 1, <<>>)

\* str.strip(): leading and trailing whitespace removed.
RECURSIVE LStrip(_), RStrip(_)
LStrip(t) == IF t # <<>> /\ t[1] \in Whitespace THEN LStrip(Tail(t)) ELSE t
RStrip(t) == IF t # <<>> /\ Last(t) \in Whitespace THEN RStrip(Front(t)) ELSE t
Strip(t) == RStrip(LStrip(t))

\* (the text is cut at blanks only)
RECURSIVE SplitBlanks(_, _, _)
SplitBlanks(text, i, cur) ==
    IF i > Len(text)
    THEN IF cur = <<>> THEN <<>> ELSE <<cur>>
    ELSE IF text[i] = " "
         THEN (IF cur = <<>> THEN <<>> ELSE <<cur>>) \o SplitBlanks(text, i + 1, <<>>)
         ELSE SplitBlanks(text, i + 1, Append(cur, text[i]))
TokensBlanksOnly(text) == SplitBlanks(text, 1, <<>>)

\* [f.strip() for f in text.split()]
Tokens(text) == LET parts == Split(text) IN [k \in 1..Len(parts) |-> Strip(parts[k])]

\* (joined without the separator)
RECURSIVE JoinNoSeparator(_)
JoinNoSeparator(ret) ==
    IF ret = <<>> THEN <<>> ELSE ret[1] \o JoinNoSeparator(Tail(ret))

\* '\n'.join(ret)
RECURSIVE JoinLines(_)
JoinLines(ret) ==
    IF ret = <<>> THEN <<>>
    ELSE IF Len(ret) = 1 THEN ret[1]
    ELSE ret[1] \o <<"\n">> \o JoinLines(Tail(ret))

TextChars == {"a", "b", " ", "\n"}
Texts == SeqsUpTo(TextChars, MaxTextLen)

\* What starting self._cmd can come to: Popen raises, or the command exits
\* with a status, having written stdout.
CmdStdouts ==
    { <<>>, <<"\n">>, <<"a">>, <<"a", "b">>, <<"a", " ", "b">>, <<"b", "\n", "a">>,
      <<" ", "a", "\n">>, <<"a", "\n", "a", "\t", "b", "\n">> }
CmdOutcomes ==
    {[kind |-> "oserror", stdout |-> <<>>]}
    \cup {[kind |-> k, stdout |-> t] : k \in {"zero", "nonzero"}, t \in CmdStdouts}

ScanPaths == {None, Some(<<"/", "p">>)}
Cwd == <<"/", "w">>

\* Observer: how the call before this one ended.
PrevOutcome == IF IsNone(scanCall) THEN "init" ELSE scanCall[1].outcome

\* (the cache is written before the exit status is looked at)
ScanRunWritesFirst(path, rescan, out) ==
    /\ ~(IsSome(cachePath) /\ IsSome(cacheFile) /\ ~rescan)
    /\ cmdRuns < MaxRuns
    /\ LET p == IF IsNone(path) THEN Cwd ELSE path[1]
           cwd == IF IsNone(rootPath) THEN p ELSE rootPath[1]
           ret == Tokens(out.stdout)
       IN /\ scanCall' = Some([path |-> path, rescan |-> rescan, cwd |-> cwd,
                               outcome |-> out.kind,
                               stdout |-> IF out.kind = "zero" THEN out.stdout ELSE <<>>,
                               prev |-> PrevOutcome])
          /\ cmdRuns' = IF out.kind = "oserror" THEN cmdRuns ELSE cmdRuns + 1
          /\ cacheFile' = IF out.kind # "oserror" /\ IsSome(cachePath)
                          THEN Some(JoinLines(ret)) ELSE cacheFile
          /\ IF out.kind = "zero"
             THEN scanRet' = Some(ret) /\ scanExc' = None
             ELSE scanRet' = None /\ scanExc' = Some("SubprocessError")
    /\ UNCHANGED <<cachePath, rootPath, detectCmd, suitCall, suitRet, suitExc,
                   sessVars, cfgVars, orderVars>>

\* scan(), lines 202-204: the cache file exists and no rescan is asked for.
ScanCached(path) ==
    /\ IsSome(cachePath) /\ IsSome(cacheFile)
    /\ scanCall' = Some([path |-> path, rescan |-> FALSE, cwd |-> <<>>,
                         outcome |-> "none", stdout |-> <<>>, prev |-> PrevOutcome])
    /\ scanRet' = Some(Tokens(cacheFile[1]))
    /\ scanExc' = None
    /\ UNCHANGED <<cachePath, cacheFile, cmdRuns, rootPath, detectCmd, suitCall,
                   suitRet, suitExc, sessVars, cfgVars, orderVars>>

\* scan(), lines 205-230: the command is run in cwd; a failure to start it
\* or a non-zero exit raises; otherwise its tokens are returned and, with a
\* cache configured, written to the cache file.
ScanRun(path, rescan, out) ==
    /\ ~(IsSome(cachePath) /\ IsSome(cacheFile) /\ ~rescan)
    /\ cmdRuns < MaxRuns
    /\ LET p == IF IsNone(path) THEN Cwd ELSE path[1]
           cwd == IF IsNone(rootPath) THEN p ELSE rootPath[1]
           ret == Tokens(out.stdout)
       IN /\ scanCall' = Some([path |-> path, rescan |-> rescan, cwd |-> cwd,
                               outcome |-> out.kind,
                               stdout |-> IF out.kind = "zero" THEN out.stdout ELSE <<>>,
                               prev |-> PrevOutcome])
          /\ cmdRuns' = IF out.kind = "oserror" THEN cmdRuns ELSE cmdRuns + 1
          /\ IF out.kind = "zero"
             THEN /\ scanRet' = Some(ret)
                  /\ scanExc' = None
                  /\ cacheFile' = IF IsSome(cachePath) THEN Some(JoinLines(ret))
                                  ELSE cacheFile
             ELSE /\ scanRet' = None
                  /\ scanExc' = Some("SubprocessError")
                  /\ cacheFile' = cacheFile
    /\ UNCHANGED <<cachePath, rootPath, detectCmd, suitCall, suitRet, suitExc,
                   sessVars, cfgVars, orderVars>>

\* A scanner constructed with or without a cache and a root_path; the cache
\* file, if the scanner has one, absent or holding any text.
InitScan ==
    /\ cachePath \in {None, Some(<<"c">>)}
    /\ cacheFile \in IF IsNone(cachePath) THEN {None}
                     ELSE {None} \cup {Some(t) : t \in Texts}
    /\ scanRet = None /\ scanExc = None /\ scanCall = None /\ cmdRuns = 0
    /\ rootPath \in {None, Some(<<"/", "r">>)}
    /\ detectCmd = None /\ suitCall = None /\ suitRet = None /\ suitExc = None
    /\ IdleSession /\ IdleCfg /\ IdleOrder

NextScan ==
    \/ \E path \in ScanPaths : ScanCached(path)
    \/ \E path \in ScanPaths, rescan \in BOOLEAN, out \in CmdOutcomes :
           ScanRun(path, rescan, out)

SpecScan == InitScan /\ [][NextScan]_vars

\* The maximal runs of non-whitespace characters of a text, as <<first, last>>.
Runs(text) ==
    {r \in (1..Len(text)) \X (1..Len(text)) :
        /\ r[1] <= r[2]
        /\ \A k \in r[1]..r[2] : text[k] \notin Whitespace
        /\ r[1] = 1 \/ text[r[1] - 1] \in Whitespace
        /\ r[2] = Len(text) \/ text[r[2] + 1] \in Whitespace}

\* toks is the list of the whitespace-separated tokens of text, in text order.
IsTokensOf(text, toks) ==
    /\ Len(toks) = Cardinality(Runs(text))
    /\ \A r \in Runs(text) :
          toks[Cardinality({o \in Runs(text) : o[1] <= r[1]})] = SubSeq(text, r[1], r[2])

\* C3: with a cache path, an existing cache file and rescan False, scan()
\* returns exactly the whitespace-separated tokens of the cache file in file
\* order, whatever the path argument, and neither runs the scan command nor
\* modifies the cache file.
C3_CachedScanOnlyReads ==
    [][ (IsSome(cachePath) /\ IsSome(cacheFile)
            /\ IsSome(scanCall') /\ ~scanCall'[1].rescan)
        => /\ scanExc' = None
           /\ IsSome(scanRet') /\ IsTokensOf(cacheFile[1], scanRet'[1])
           /\ cmdRuns' = cmdRuns
           /\ cacheFile' = cacheFile ]_vars

\* A scan with a path argument answered from a cache file that holds two
\* different tokens, a newline between them, with no command run so far.
C3_Witness ==
    /\ IsSome(scanCall) /\ scanCall[1].outcome = "none" /\ IsSome(scanCall[1].path)
    /\ cmdRuns = 0
    /\ IsSome(scanRet) /\ Len(scanRet[1]) = 2 /\ scanRet[1][1] # scanRet[1][2]
    /\ \E k \in 1..Len(cacheFile[1]) : cacheFile[1][k] = "\n"

\* C4: a scan() with rescan=True, or with no cache file yet, that returns,
\* has run the command and returns the tokens of its output; with a cache
\* path the cache file then holds that list (and without one no file
\* appears); and a scan(rescan=False) right after a regenerating scan of a
\* scanner with a cache returns the same list.
C4_RescanRegenerates ==
    [][ /\ (/\ IsSome(scanCall')
            /\ scanCall'[1].rescan \/ ~(IsSome(cachePath) /\ IsSome(cacheFile))
            /\ scanExc' = None)
           => /\ scanCall'[1].outcome = "zero"
              /\ cmdRuns' = cmdRuns + 1
              /\ IsSome(scanRet') /\ IsTokensOf(scanCall'[1].stdout, scanRet'[1])
              /\ IF IsSome(cachePath)
                 THEN IsSome(cacheFile') /\ IsTokensOf(cacheFile'[1], scanRet'[1])
                 ELSE cacheFile' = cacheFile
        /\ (/\ IsSome(scanCall) /\ scanCall[1].outcome = "zero" /\ IsSome(cachePath)
            /\ IsSome(scanCall') /\ ~scanCall'[1].rescan)
           => /\ scanExc' = None
              /\ scanRet' = scanRet ]_vars

\* A scan(rescan=False) answered from the cache right after a regenerating
\* scan, returning the two tokens that scan had found.
C4_Witness ==
    /\ IsSome(scanCall) /\ scanCall[1].outcome = "none" /\ scanCall[1].prev = "zero"
    /\ IsSome(scanRet) /\ Len(scanRet[1]) = 2 /\ scanRet[1][1] # scanRet[1][2]
    /\ cmdRuns >= 1

\* C5: a scan command that cannot be started or that exits non-zero makes
\* scan() raise SubprocessError and return nothing, and the cache file is
\* as it was before the call: not created, not truncated, not overwritten.
C5_FailedScanKeepsCache ==
    [][ (IsSome(scanCall') /\ scanCall'[1].outcome \in {"oserror", "nonzero"})
        => /\ scanExc' = Some("SubprocessError")
           /\ scanRet' = None
           /\ cacheFile' = cacheFile ]_vars

\* A forced rescan whose command exited non-zero, the scanner holding a
\* cache file with content.
C5_Witness ==
    /\ IsSome(scanCall) /\ scanCall[1].outcome = "nonzero" /\ scanCall[1].rescan
    /\ scanExc = Some("SubprocessError")
    /\ IsSome(cachePath) /\ IsSome(cacheFile) /\ Len(Tokens(cacheFile[1])) = 2

\* A scan whose command could not be started, with a cache path and no file.
C5_WitnessNoFile ==
    /\ IsSome(scanCall) /\ scanCall[1].outcome = "oserror"
    /\ IsSome(cachePath) /\ IsNone(cacheFile)

(***************************************************************************)
(* SimpleScanner.is_suitable (scanner.py 145-180).                          *)
(***************************************************************************)
\* path.split('/'): every component, the empty ones included.
RECURSIVE SplitSlash(_, _, _)
SplitSlash(path, i, cur) ==
    IF i > Len(path) THEN <<cur>>
    ELSE IF path[i] = "/" THEN <<cur>> \o SplitSlash(path, i + 1, <<>>)
    ELSE SplitSlash(path, i + 1, Append(cur, path[i]))

\* '/'.join(comps)
RECURSIVE JoinSlash(_)
JoinSlash(comps) ==
    IF comps = <<>> THEN <<>>
    ELSE IF Len(comps) = 1 THEN comps[1]
    ELSE comps[1] \o <<"/">> \o JoinSlash(Tail(comps))

StartsWith(s, prefix) ==
    Len(prefix) <= Len(s) /\ SubSeq(s, 1, Len(prefix)) = prefix

Dot == <<".">>
DotDot == <<".", ".">>

\* The loop of posixpath.normpath over the components.
RECURSIVE NormComps(_, _, _, _)
NormComps(comps, k, new, initial) ==
    IF k > Len(comps) THEN new
    ELSE LET comp == comps[k]
         IN IF comp = <<>> \/ comp = Dot
            THEN NormComps(comps, k + 1, new, initial)
            ELSE IF \/ comp # DotDot
                    \/ (initial = 0 /\ new = <<>>)
                    \/ (new # <<>> /\ Last(new) = DotDot)
                 THEN NormComps(comps, k + 1, Append(new, comp), initial)
                 ELSE IF new # <<>>
                      THEN NormComps(comps, k + 1, Front(new), initial)
                      ELSE NormComps(comps, k + 1, new, initial)

\* os.path.normpath (posixpath): empty and '.' components dropped, '..'
\* resolved, one or two leading slashes kept, three or more made one.
Normpath(path) ==
    IF path = <<>> THEN Dot
    ELSE LET initial == IF ~StartsWith(path, <<"/">>) THEN 0
                        ELSE IF StartsWith(path, <<"/", "/">>)
                                /\ ~StartsWith(path, <<"/", "/", "/">>) THEN 2
                        ELSE 1
             body == JoinSlash(NormComps(SplitSlash(path, 1, <<>>), 1, <<>>, initial))
             out == [k \in 1..initial |-> "/"] \o body
         IN IF out = <<>> THEN Dot ELSE out

\* os.path.realpath in a file system without symbolic links: the path made
\* absolute from the working directory, its leading slashes made one.
Realpath(path) ==
    LET abs == IF StartsWith(path, <<"/">>) THEN path ELSE Cwd \o <<"/">> \o path
        n == Normpath(abs)
    IN IF StartsWith(n, <<"/", "/">>) THEN Tail(n) ELSE n

\* os.path.expandvars, os.path.expanduser: a path without '$' and without a
\* leading '~' is returned as it is.
ExpandPath(path) ==
    IF (\E k \in 1..Len(path) : path[k] = "$") \/ StartsWith(path, <<"~">>)
    THEN <<"/", "h">> ELSE path

\* __init__, lines 105-109
RootOf(root_path) == Realpath(Normpath(ExpandPath(root_path)))

PathChars == {"/", "a", "."}
AbsPaths == {p \in SeqsUpTo(PathChars, MaxPathLen) : StartsWith(p, <<"/">>)}

\* The root_path arguments scanners are constructed with.
RootInputs ==
    { <<"/">>, <<"/", "a">>, <<"/", "a", "/">>, <<"/", "a", "/", ".">>,
      <<"/", "a", "a">>, <<"/", "a", "/", "a">>, <<"/", "a", "/", ".", ".", "/", "a", "a">> }

\* os.path.realpath(os.path.normpath(path)) of every path asked about,
\* computed once (f @@ <<>> is f, tabulated).
Canonical == [p \in AbsPaths |-> Realpath(Normpath(p))] @@ <<>>

\* What running self._detect_cmd can come to ("none": the scanner has none,
\* or does not get to run it).
DetectOutcomes == IF IsSome(detectCmd) THEN {"oserror", "zero", "nonzero"} ELSE {"none"}

\* (the last test reads "or" for "and")
IsSuitableFallsThrough(path, out) ==
    LET norm == IF IsSome(rootPath) THEN Canonical[path] ELSE path
        underRoot == IsSome(rootPath) /\ StartsWith(norm, rootPath[1])
        runs == ~underRoot /\ IsSome(detectCmd)
    IN /\ suitCall' = Some([path |-> path, cwd |-> IF runs THEN norm ELSE <<>>,
                            outcome |-> IF runs THEN out ELSE "none"])
       /\ IF underRoot THEN suitRet' = Some(TRUE) /\ suitExc' = None
          ELSE IF runs /\ out = "oserror"
               THEN suitRet' = None /\ suitExc' = Some("SubprocessError")
          ELSE IF runs /\ out = "zero" THEN suitRet' = Some(TRUE) /\ suitExc' = None
          ELSE /\ suitRet' = Some(IsNone(rootPath) \/ IsNone(detectCmd))
               /\ suitExc' = None
       /\ UNCHANGED <<rootPath, detectCmd, cachePath, cacheFile, scanRet, scanExc,
                      scanCall, cmdRuns, sessVars, cfgVars, orderVars>>

\* is_suitable(path); out is what the detect command comes to if it is run.
IsSuitable(path, out) ==
    LET norm == IF IsSome(rootPath) THEN Canonical[path] ELSE path
        underRoot == IsSome(rootPath) /\ StartsWith(norm, rootPath[1])
        runs == ~underRoot /\ IsSome(detectCmd)
    IN /\ suitCall' = Some([path |-> path, cwd |-> IF runs THEN norm ELSE <<>>,
                            outcome |-> IF runs THEN out ELSE "none"])
       /\ IF underRoot THEN suitRet' = Some(TRUE) /\ suitExc' = None
          ELSE IF runs /\ out = "oserror"
               THEN suitRet' = None /\ suitExc' = Some("SubprocessError")
          ELSE IF runs /\ out = "zero" THEN suitRet' = Some(TRUE) /\ suitExc' = None
          ELSE /\ suitRet' = Some(IsNone(rootPath) /\ IsNone(detectCmd))
               /\ suitExc' = None
       /\ UNCHANGED <<rootPath, detectCmd, cachePath, cacheFile, scanRet, scanExc,
                      scanCall, cmdRuns, sessVars, cfgVars, orderVars>>

\* A scanner constructed with any root_path or none, with or without a
\* detect_cmd.
InitSuitable ==
    /\ rootPath \in {None} \cup {Some(RootOf(r)) : r \in RootInputs}
    /\ detectCmd \in {None, Some(<<"d">>)}
    /\ suitCall = None /\ suitRet = None /\ suitExc = None
    /\ cachePath = None /\ cacheFile = None /\ scanRet = None /\ scanExc = None
    /\ scanCall = None /\ cmdRuns = 0
    /\ IdleSession /\ IdleCfg /\ IdleOrder

NextSuitable ==
    \E path \in AbsPaths, out \in DetectOutcomes : IsSuitable(path, out)

SpecSuitable == InitSuitable /\ [][NextSuitable]_vars

\* p is root itself or a path below it (both normalised and absolute).
IsSelfOrDescendant(root, p) ==
    \/ p = root
    \/ root = <<"/">>
    \/ StartsWith(p, root \o <<"/">>)

\* C6: with a root_path and no detect_cmd, is_suitable(path) is True if and
\* only if the normalised path is root_path or a descendant of it; it is
\* False for the parent of root_path and for the directories next to it.
C6_RootPathDecides ==
    (IsSome(suitCall) /\ IsSome(rootPath) /\ IsNone(detectCmd))
        => /\ IsSome(suitRet)
           /\ suitRet[1] = IsSelfOrDescendant(rootPath[1],
                                              Realpath(Normpath(suitCall[1].path)))

\* C7: with no root_path, is_suitable(path) returns True exactly when no
\* detect_cmd is configured or the detect_cmd, run with path as its working
\* directory, exits with status 0; a non-zero exit makes it return False.
C7_DetectCmdDecides ==
    (IsSome(suitCall) /\ IsNone(rootPath))
        => /\ (suitRet = Some(TRUE))
                <=> (IsNone(detectCmd) \/ suitCall[1].outcome = "zero")
           /\ IsSome(detectCmd)
                => /\ suitCall[1].outcome # "none"
                   /\ suitCall[1].cwd = suitCall[1].path
           /\ suitCall[1].outcome = "nonzero" => suitRet = Some(FALSE)
           /\ IsNone(detectCmd) => suitCall[1].outcome = "none"

\* A scanner with only a detect_cmd, whose command exited non-zero in the
\* path asked about.
C7_Witness ==
    /\ IsSome(suitCall) /\ IsNone(rootPath) /\ IsSome(detectCmd)
    /\ suitCall[1].outcome = "nonzero" /\ suitRet = Some(FALSE)
    /\ Len(suitCall[1].path) > 1

\* A scanner with neither: suitable for the path asked about.
C7_WitnessFallthrough ==
    /\ IsSome(suitCall) /\ IsNone(rootPath) /\ IsNone(detectCmd)
    /\ suitRet = Some(TRUE)

(***************************************************************************)
(* scanner_from_configparser and SimpleScanner.from_configparser           *)
(* (scanner.py 121-143, 234-254), SimpleScanner.__init__ (72-119).         *)
(***************************************************************************)
\* str.replace('\n', ' ')
ReplaceNewlines(text) == [k \in 1..Len(text) |-> IF text[k] = "\n" THEN " " ELSE text[k]]

\* The sections a parser can hold under the name asked for: every option
\* absent (None) or present with a value.  A section the parser does not
\* have at all has no option.
Sections ==
    [type : {None, Some("simple"), Some("junk")},
     cmd : {None, Some(<<"e">>), Some(<<"e", "\n", "h">>)},
     detect_cmd : {None, Some(<<"d", "\n", "x">>)},
     root_path : {None, Some(<<"/", "a", "/", ".">>)},
     priority : {None, Some(<<"1">>)},
     cache : {None, Some(<<"/", "c", "/", "f">>)}]

\* The directory of the cache file when the scanner is constructed.
CacheDirs == {"isdir", "missing", "uncreatable"}

SectionName == <<"r">>

HasOption(sec, opt) == IsSome(sec[opt])

\* SimpleScanner.__init__: a raised OSError (os.makedirs) or the scanner.
NewSimpleScanner(name, cmd, kwds, dir) ==
    IF IsSome(kwds.cache) /\ dir = "uncreatable"
    THEN [raised |-> "OSError", scanner |-> None]
    ELSE [raised |-> "",
          scanner |-> Some([name |-> name,
                            cmd |-> cmd,
                            priority |-> IF IsSome(kwds.priority) THEN kwds.priority[1]
                                         ELSE <<"0">>,
                            detect_cmd |-> kwds.detect_cmd,
                            root_path |-> IF IsSome(kwds.root_path)
                                          THEN Some(RootOf(kwds.root_path[1])) ELSE None,
                            cache |-> IF IsSome(kwds.cache)
                                      THEN Some(RootOf(kwds.cache[1])) ELSE None])]

\* (the command is read, and the scanner built, before the type is looked at)
FromConfigCmdFirst(sec, dir) ==
    /\ cfgSection' = Some(sec)
    /\ IF ~HasOption(sec, "cmd")
       THEN cfgOutcome' = Some("NoOptionError") /\ cfgScanner' = None /\ constructed' = 0
       ELSE LET made == NewSimpleScanner(SectionName, ReplaceNewlines(sec.cmd[1]),
                                         sec, dir)
            IN /\ constructed' = 1
               /\ IF ~HasOption(sec, "type")
                  THEN cfgOutcome' = Some("NoTypeError") /\ cfgScanner' = None
                  ELSE IF sec.type[1] # "simple"
                  THEN cfgOutcome' = Some("UnknownTypeError") /\ cfgScanner' = None
                  ELSE IF made.raised # ""
                  THEN cfgOutcome' = Some(made.raised) /\ cfgScanner' = None
                  ELSE cfgOutcome' = Some("Scanner") /\ cfgScanner' = made.scanner
    /\ UNCHANGED <<sessVars, scanVars, suitVars, orderVars>>

\* scanner_from_configparser(section, parser), the parser holding sec.
FromConfig(sec, dir) ==
    /\ cfgSection' = Some(sec)
    /\ IF ~HasOption(sec, "type")
       THEN cfgOutcome' = Some("NoTypeError") /\ cfgScanner' = None /\ constructed' = 0
       ELSE IF sec.type[1] # "simple"
       THEN cfgOutcome' = Some("UnknownTypeError") /\ cfgScanner' = None
            /\ constructed' = 0
       ELSE \* SimpleScanner.from_configparser
            LET kwds == [sec EXCEPT !.detect_cmd =
                             IF HasOption(sec, "detect_cmd")
                             THEN Some(ReplaceNewlines(sec.detect_cmd[1])) ELSE None]
            IN IF ~HasOption(sec, "cmd")
               THEN cfgOutcome' = Some("NoOptionError") /\ cfgScanner' = None
                    /\ constructed' = 0
               ELSE LET made == NewSimpleScanner(SectionName,
                                                 ReplaceNewlines(sec.cmd[1]), kwds, dir)
                    IN /\ constructed' = 1
                       /\ IF made.raised # ""
                          THEN cfgOutcome' = Some(made.raised) /\ cfgScanner' = None
                          ELSE cfgOutcome' = Some("Scanner")
                               /\ cfgScanner' = made.scanner
    /\ UNCHANGED <<sessVars, scanVars, suitVars, orderVars>>

InitConfig ==
    /\ cfgSection = None /\ cfgOutcome = None /\ cfgScanner = None /\ constructed = 0
    /\ IdleSession /\ IdleScan /\ IdleSuit /\ IdleOrder

NextConfig == \E sec \in Sections, dir \in CacheDirs : FromConfig(sec, dir)

SpecConfig == InitConfig /\ [][NextConfig]_vars

\* C8: scanner_from_configparser decides in this order: no 'type' option,
\* NoTypeError; a type other than 'simple', UnknownTypeError; type 'simple'
\* without 'cmd', NoOptionError and no scanner constructed; a Scanner is
\* returned only for a section with type 'simple' and a 'cmd'.
C8_ConfigOutcomeOrder ==
    IsSome(cfgSection) =>
        LET sec == cfgSection[1]
        IN /\ ~HasOption(sec, "type") => cfgOutcome = Some("NoTypeError")
           /\ (HasOption(sec, "type") /\ sec.type[1] # "simple")
                 => cfgOutcome = Some("UnknownTypeError")
           /\ (HasOption(sec, "type") /\ sec.type[1] = "simple" /\ ~HasOption(sec, "cmd"))
                 => cfgOutcome = Some("NoOptionError")
           /\ cfgOutcome \in {Some("NoTypeError"), Some("UnknownTypeError"),
                              Some("NoOptionError")}
                 => constructed = 0 /\ IsNone(cfgScanner)
           /\ cfgOutcome = Some("Scanner")
                 <=> IsSome(cfgScanner)
           /\ IsSome(cfgScanner)
                 => /\ HasOption(sec, "type") /\ sec.type[1] = "simple"
                    /\ HasOption(sec, "cmd")
                    /\ constructed = 1

\* A section of type 'simple' with every option but 'cmd': NoOptionError.
C8_Witness ==
    /\ IsSome(cfgSection)
    /\ cfgSection[1].type = Some("simple") /\ IsNone(cfgSection[1].cmd)
    /\ IsSome(cfgSection[1].cache) /\ IsSome(cfgSection[1].root_path)
    /\ IsSome(cfgSection[1].detect_cmd) /\ IsSome(cfgSection[1].priority)
    /\ cfgOutcome = Some("NoOptionError")

\* A section with a cmd and no type: NoTypeError, although a scanner could
\* have been built from it.
C8_WitnessNoType ==
    /\ IsSome(cfgSection)
    /\ IsNone(cfgSection[1].type) /\ IsSome(cfgSection[1].cmd)
    /\ cfgOutcome = Some("NoTypeError")

\* A scanner returned, its multi-line cmd on one line.
C8_WitnessScanner ==
    /\ IsSome(cfgScanner) /\ cfgScanner[1].cmd = <<"e", " ", "h">>
    /\ cfgScanner[1].root_path = Some(<<"/", "a">>)

(***************************************************************************)
(* Scanner ordering (scanner.py 18-40) and list.sort() over it             *)
(* (test/scanner.py 25-26).                                                *)
(***************************************************************************)
ScannerNames == {"x", "y"}
Priorities == -1..MaxPriority
ScannerObjects == [name : ScannerNames, priority : Priorities]

\* (names alone are compared)
EqByNameOnly(a, b) == a.name = b.name

\* Scanner.__eq__
Eq(a, b) == a.name = b.name /\ a.priority = b.priority

\* (the comparison is the wrong way round)
LtReversed(a, b) == a.priority > b.priority

\* Scanner.__lt__
Lt(a, b) == a.priority < b.priority

\* __gt__ as functools.total_ordering derives it from __lt__ and __eq__.
Gt(a, b) == ~(Lt(a, b) \/ Eq(a, b))

\* list.sort() on fewer than 64 elements: the leading run is found (and
\* reversed if it descends), the rest is inserted by binary search.  Only
\* __lt__ is asked.
RECURSIVE RunEnd(_, _, _)
RunEnd(a, k, descending) ==
    IF k > Len(a) THEN k - 1
    ELSE IF Lt(a[k], a[k - 1]) = descending THEN RunEnd(a, k + 1, descending)
    ELSE k - 1

Reversed(a) == [k \in 1..Len(a) |-> a[Len(a) + 1 - k]]

RECURSIVE InsertionPoint(_, _, _, _)
InsertionPoint(a, pivot, l, r) ==
    IF l >= r THEN l
    ELSE LET mid == l + ((r - l) \div 2)
         IN IF Lt(pivot, a[mid]) THEN InsertionPoint(a, pivot, l, mid)
            ELSE InsertionPoint(a, pivot, mid + 1, r)

RECURSIVE BinarySort(_, _)
BinarySort(a, start) ==
    IF start > Len(a) THEN a
    ELSE LET at == InsertionPoint(a, a[start], 1, start)
             moved == SubSeq(a, 1, at - 1) \o <<a[start]>>
                      \o SubSeq(a, at, start - 1) \o SubSeq(a, start + 1, Len(a))
         IN BinarySort(moved, start + 1)

ListSort(a) ==
    IF Len(a) < 2 THEN a
    ELSE LET descending == Lt(a[2], a[1])
             n == RunEnd(a, 3, descending)
             run == IF descending
                    THEN Reversed(SubSeq(a, 1, n)) \o SubSeq(a, n + 1, Len(a))
                    ELSE a
         IN BinarySort(run, n + 1)

\* l.sort()
SortScanners ==
    /\ sorted' = Some(ListSort(scanners))
    /\ UNCHANGED <<scanners, cmpPair, sessVars, scanVars, suitVars, cfgVars>>

\* a < b, a == b, a > b for two scanners of the list
CompareScanners(i, j) ==
    /\ cmpPair' = Some([a |-> scanners[i], b |-> scanners[j],
                        lt |-> Lt(scanners[i], scanners[j]),
                        eq |-> Eq(scanners[i], scanners[j]),
                        gt |-> Gt(scanners[i], scanners[j])])
    /\ UNCHANGED <<scanners, sorted, sessVars, scanVars, suitVars, cfgVars>>

InitOrder ==
    /\ scanners \in SeqsUpTo(ScannerObjects, MaxList)
    /\ sorted = None /\ cmpPair = None
    /\ IdleSession /\ IdleScan /\ IdleSuit /\ IdleCfg

NextOrder ==
    \/ SortScanners
    \/ \E i \in 1..Len(scanners), j \in 1..Len(scanners) : CompareScanners(i, j)

SpecOrder == InitOrder /\ [][NextOrder]_vars

\* The number of places of list s that hold x.
Count(s, x) == Cardinality({k \in 1..Len(s) : s[k] = x})

GtIsConverseOfLt ==
    IsSome(cmpPair) => (cmpPair[1].gt <=> Lt(cmpPair[1].b, cmpPair[1].a))

====
